---- MODULE Spec2Model ----
(***************************************************************************)
(* A model of mosyle2snipe: the reconciliation of the devices of an MDM    *)
(* (Mosyle) with the assets of an asset-management service (Snipe-IT).     *)
(*                                                                         *)
(*   src/mosyle2snipe.py   the script: startup checks, the model registry, *)
(*                         the per-device reconciliation loop, the         *)
(*                         Snipe-IT client functions and request_handler   *)
(*   src/mosyle_api.py     MosyleConnection: get_devices, update_devices,  *)
(*                         validate_request                                *)
(*                                                                         *)
(* Strings that the code slices or compares field by field (asset tags,    *)
(* names, serial numbers, mapped values) are sequences of characters; ''   *)
(* is << >>.  A Python dict is a function and `k in d` is k \in DOMAIN d.  *)
(* An uncaught Python exception ends the process: pc = "crashed" with the  *)
(* exception in err.  SystemExit ends it with pc = "fatal".                *)
(***************************************************************************)
EXTENDS Integers, Sequences, FiniteSets, TLC

VARIABLES
    pc,             \* position of the script
    err,            \* the exception or exit message that ended the run, "" if none
    env,            \* "any": the services may fail; "faithful": every call succeeds and is applied
    run,            \* 1 for the first execution of the script, 2 for the second
    user_args,      \* the runtime arguments (lines 13-27)
    config,         \* settings.conf (lines 43-73): the field mapping
    snipemodels,    \* the model rows held by Snipe-IT
    modelnumbers,   \* the registry: model_number -> model id (line 317)
    modelnames,     \* the display names of the listed models (line 318)
    CurrentNumber,  \* line 357
    mosyle_type,    \* the class of the device being processed
    md,             \* the device record being processed
    snipe,          \* the result of search_snipe_asset for md (lines 400, 432)
    new_snipe_asset,\* the result of create_snipe_asset (line 425)
    first_kind,     \* the outcome of the first lookup for md (line 400)
    srv,            \* what Snipe-IT holds for md's serial number
    mdm_tag,        \* the asset tag Mosyle holds for md
    calls,          \* the calls issued while processing md, in order
    sent,           \* the payloads of the calls issued while processing md
    listing,        \* what get_snipe_models asked and got
    hist,           \* the devices processed by run 1 with what both services hold after it
    \* request_handler, src/mosyle2snipe.py lines 91-118
    rl_pc,          \* "off", "ready" (between requests), "hook" (a response is in), "fatal"
    ratelimited,    \* user_args.ratelimited (-r)
    r_text,         \* whether the response handed to the hook carries "messages":429
    snipe_api_count,\* line 91
    rl_log,         \* per request: the first answer, the sends, the pause, what the caller got
    \* MosyleConnection, src/mosyle_api.py
    m_pc,           \* "off", "idle", "get_devices", "update_devices", "returned", "raised"
    mdm_pages,      \* the number of pages of devices Mosyle holds
    fail,           \* the failure counter of get_devices and update_devices
    page,           \* payload['options']['page']
    all_devices,    \* the devices accumulated by get_devices
    reqlog,         \* the requests of the call: the page asked and the outcome
    m_result        \* what the call returned

vars == <<pc, err, env, run, user_args, config, snipemodels, modelnumbers,
          modelnames, CurrentNumber, mosyle_type, md, snipe,
          new_snipe_asset, first_kind, srv, mdm_tag, calls, sent, hist, listing,
          rl_pc, ratelimited, r_text, snipe_api_count, rl_log,
          m_pc, mdm_pages, fail, page, all_devices, reqlog, m_result>>

rl_vars == <<rl_pc, ratelimited, r_text, snipe_api_count, rl_log>>
mdm_vars == <<m_pc, mdm_pages, fail, page, all_devices, reqlog, m_result>>

----------------------------------------------------------------------------
(* Bounds and input sets *)

MaxDevices == 2
MaxReplay == 1

Digits == <<"1", "2", "3", "4", "5">>

EmptyStr == << >>
TagT == <<"T", "-", "1">>
TagS == <<"S", "-", "9">>
NameMac == <<"M", "a", "c">>
NameOld == <<"O", "l", "d">>
ValV == <<"v">>

SerialOf(i) == <<"S", "N", Digits[i]>>

DeviceModels == {"M1"}
ModelNames == {"A", "B"}

\* The listings GET /models may answer: rows in the server's order.
ModelRow(i, num, name) == [id |-> i, model_number |-> num, name |-> name]
ModelListings ==
    { << >>,
      << ModelRow(1, "M1", "A") >>,
      << ModelRow(1, "", "A") >>,
      << ModelRow(1, "M1", "A"), ModelRow(2, "M1", "B") >>,
      << ModelRow(1, "M1", "A"), ModelRow(2, "M2", "B") >> }

\* The Snipe-IT users: get_snipe_user_id finds these and no other.
SnipeUsers == [u1 |-> 1, u2 |-> 2]
MosyleUsers == {"u1", "nobody"}

\* The field mappings of settings.conf: sequences of <<Snipe-IT field, Mosyle field>>.
MapStd == << <<"name", "device_name">>, <<"_snipeit_cf", "x">>, <<"ghost", "x">> >>
MapTag == << <<"asset_tag", "asset_tag">> >>
Mappings == {MapStd, MapTag}

Modes == {"none", "users", "users_inverse", "users_force"}

UserArgs(mode, dry) ==
    [users |-> (mode = "users"), users_inverse |-> (mode = "users_inverse"),
     users_force |-> (mode = "users_force"), dryrun |-> dry]

UserSync == user_args.users \/ user_args.users_inverse \/ user_args.users_force

Mapped(key) == \E i \in 1..Len(config.mapping) : config.mapping[i][2] = key
MappedSnipe(key) == \E i \in 1..Len(config.mapping) : config.mapping[i][1] = key

----------------------------------------------------------------------------
(* Values that stand for "nothing here" *)

NoMd == [device_name |-> EmptyStr]
NoRow == [id |-> 0]
NoSnipe == [kind |-> "unset", row |-> NoRow]
NoSrv == [n |-> 0, row |-> NoRow]
UnknownSrv == [n |-> -1, row |-> NoRow]
NoSent == [createAsset |-> [none |-> TRUE], updateAsset |-> [none |-> TRUE],
           updateDevice |-> [none |-> TRUE], createModel |-> [none |-> TRUE],
           updateModel |-> [none |-> TRUE], checkOut |-> [none |-> TRUE],
           findUser |-> [none |-> TRUE]]

WriteOps == {"createModel", "updateModel", "createAsset", "updateAsset",
             "checkIn", "checkOut", "updateDevice"}

Count(s, op) == Cardinality({i \in 1..Len(s) : s[i] = op})
Writes(s) == {i \in 1..Len(s) : s[i] \in WriteOps}

\* What a call may answer: HTTP 200 with the body the code reads ("ok"),
\* another status ("fail"), or nothing the code can go on with ("raise"): the
\* request fails in transport (requests raises ConnectionError), or the body
\* is not what the code subscripts (not JSON where response.json() is called,
\* or 'payload' null where jsonresponse['payload'][...] is read).
\* A request to Snipe-IT goes through request_handler: without -r an answer
\* that carries the marker '"messages":429' makes the hook raise SystemExit
\* inside the call ("exit", lines 115-117).
Outcomes ==
    IF env = "faithful" THEN {"ok"}
    ELSE {"ok", "fail", "raise"} \cup (IF ratelimited THEN {} ELSE {"exit"})

\* What a call to Mosyle may achieve: its requests carry no hook.
MdmOutcomes == Outcomes \ {"exit"}

\* The outcomes that end the script inside the call, where it then stands and
\* what it leaves as its last word.
RateLimitedMsg == "We've been rate limited. Use option -r to respect the built in Snipe IT API rate limit of 120/minute."
Ends(oc) == oc \in {"raise", "exit"}
EndPc(oc) == IF oc = "exit" THEN "fatal" ELSE "crashed"
EndErr(oc, exception) == IF oc = "exit" THEN RateLimitedMsg ELSE exception

\* What POST /hardware may answer: the above, or HTTP 200 with status 'error'
\* and a null payload ("rejected"), which create_snipe_asset takes for a
\* creation since it tests the status code only (line 215).
CreateOutcomes == IF env = "faithful" THEN {"ok"} ELSE Outcomes \cup {"rejected"}

----------------------------------------------------------------------------
(* The Snipe-IT client functions of src/mosyle2snipe.py *)

\* The answers of GET /hardware/byserial/<serial>.
RespErr == [status_code |-> 500, has_rows |-> FALSE, total |-> 0,
            messages |-> "", row |-> NoRow]
RespRows(n, row) == [status_code |-> 200, has_rows |-> TRUE, total |-> n,
                     messages |-> "", row |-> row]
RespAbsent == [status_code |-> 200, has_rows |-> FALSE, total |-> 0,
               messages |-> "Asset does not exist.", row |-> NoRow]
RespOther == [status_code |-> 200, has_rows |-> FALSE, total |-> 0,
              messages |-> "Unauthorized.", row |-> NoRow]
\* No answer: requests.get raises (line 123).
RespNone == [status_code |-> 0, has_rows |-> FALSE, total |-> 0,
             messages |-> "", row |-> NoRow]
\* An answer with the marker '"messages":429', on which the hook raises
\* SystemExit (without -r).
Resp429 == [status_code |-> 429, has_rows |-> FALSE, total |-> 0,
            messages |-> "429", row |-> NoRow]

\* What the server may answer when it holds s for the serial number.  A faithful
\* server reports an absent serial with the message the code tests for; other
\* servers answer an empty row list, an error status or another message.
SearchResponses(s) ==
    LET true == IF s.n = 0 THEN {RespAbsent} ELSE {RespRows(s.n, s.row)}
    IN  IF env = "faithful" THEN true
        ELSE true \cup {RespErr, RespOther, RespNone}
                  \cup (IF ratelimited THEN {} ELSE {Resp429})
                  \cup (IF s.n = 0 THEN {RespRows(0, NoRow)} ELSE {})

\* search_snipe_asset, lines 121-139.  "None" is the function falling off its
\* end, "raise" the exception of requests.get passing through it, "exit" the
\* SystemExit of the hook.
search_snipe_asset(response) ==
    IF response.status_code = 0
    THEN [kind |-> "raise", row |-> NoRow]
    ELSE IF response.messages = "429"
    THEN [kind |-> "exit", row |-> NoRow]
    ELSE IF response.status_code = 200
    THEN IF response.has_rows
         THEN IF response.total = 1
              THEN [kind |-> "Single", row |-> response.row]
              ELSE [kind |-> "MultiMatch", row |-> NoRow]
         ELSE IF response.messages = "Asset does not exist."
              THEN [kind |-> "NoMatch", row |-> NoRow]
              ELSE [kind |-> "None", row |-> NoRow]
    ELSE [kind |-> "ERROR", row |-> NoRow]

NotFound == -1
None == 0
NewAsset == -2
\* In the place of a value: the expression raised (an exception, SystemExit)
\* instead of giving one.
Raised == -3

\* get_snipe_user_id, lines 170-181: the id of the first row, "NotFound" when
\* the answer has no row (an unknown user, or a failed request: oc = "fail").
\* requests.get stands before the try of line 178: when it raises, so does
\* the function.
get_snipe_user_id(username, oc) ==
    IF Ends(oc) THEN Raised
    ELSE IF oc = "ok" /\ username \in DOMAIN SnipeUsers
    THEN SnipeUsers[username] ELSE NotFound

Deployable(row) == row.status_meta \in {"deployable", "deployed"}

\* The server applying a check-in and a check-out to the row it holds.
ServerCheckin(s, oc) ==
    IF oc = "ok" /\ s.n = 1
    THEN [s EXCEPT !.row.assigned_to = None,
                   !.row.status_meta = IF @ = "deployed" THEN "deployable" ELSE @]
    ELSE s
ServerCheckout(s, user_id, oc) ==
    IF oc = "ok" /\ s.n = 1 /\ s.row.assigned_to = None /\ Deployable(s.row)
    THEN [s EXCEPT !.row.assigned_to = user_id, !.row.status_meta = "deployed"]
    ELSE s

\* checkout_snipe_asset, lines 259-290, with checkin_snipe_asset, lines 244-256:
\* the calls it issues, what the server holds afterwards and what it returns.
\* uo, io, oo are the outcomes of the user search, the check-in and the check-out.
\* Lines 251 and 284 call response.json() for a debug message before the
\* status is tested: a check-in or a check-out whose answer is not JSON, or
\* that fails in transport, raises ("raise"), and nothing follows it; nor
\* after the SystemExit of the hook ("exit").  The result is then that outcome.
checkout_snipe_asset(user, checked_out_user, s, uo, io, oo) ==
    LET user_id == get_snipe_user_id(user, uo)
        holder == checked_out_user \notin {None, NewAsset}
        s1 == IF holder THEN ServerCheckin(s, io) ELSE s
    IN  IF user_id = Raised
        THEN [calls |-> <<"findUser">>, srv |-> s, user_id |-> user_id,
              result |-> uo]
        ELSE IF user_id = NotFound
        THEN [calls |-> <<"findUser">>, srv |-> s, user_id |-> user_id,
              result |-> "NotFound"]
        ELSE IF holder /\ checked_out_user = user_id
        THEN [calls |-> <<"findUser">>, srv |-> s, user_id |-> user_id,
              result |-> "CheckedOut"]
        ELSE IF holder /\ Ends(io)
        THEN [calls |-> <<"findUser", "checkIn">>, srv |-> s, user_id |-> user_id,
              result |-> io]
        ELSE [calls |-> <<"findUser">>
                        \o (IF holder THEN <<"checkIn">> ELSE << >>)
                        \o <<"checkOut">>,
              srv |-> ServerCheckout(s1, user_id, oo),
              user_id |-> user_id,
              result |-> CASE oo = "ok" -> "CheckedOut"
                           [] Ends(oo) -> oo
                           [] OTHER -> "response"]

\* The requests of checkout_snipe_asset that are sent, and so have an
\* outcome: the check-in (line 275) when the user was found and another user
\* holds the asset, the check-out (line 283) when the user was found, does not
\* hold the asset, and the check-in, if any, returned.
CheckinOutcomes(user, checked_out_user, uo) ==
    LET user_id == get_snipe_user_id(user, uo)
    IN  IF /\ user_id \notin {Raised, NotFound}
           /\ checked_out_user \notin {None, NewAsset, user_id}
        THEN Outcomes ELSE {"ok"}
CheckoutOutcomes(user, checked_out_user, uo, io) ==
    LET user_id == get_snipe_user_id(user, uo)
    IN  IF /\ user_id \notin {Raised, NotFound}
           /\ checked_out_user # user_id
           /\ ~Ends(io)
        THEN Outcomes ELSE {"ok"}

----------------------------------------------------------------------------
(* The model registry, lines 315-325 *)

RECURSIVE RegistryNumbers(_, _)
\* modelnumbers after the loop of lines 319-324 over rows, starting from acc:
\* a row without model number is skipped, a later row overwrites an earlier.
RegistryNumbers(rows, acc) ==
    IF rows = << >> THEN acc
    ELSE LET model == Head(rows)
         IN  IF model.model_number = ""
             THEN RegistryNumbers(Tail(rows), acc)
             ELSE RegistryNumbers(Tail(rows),
                      (model.model_number :> model.id) @@ acc)

\* modelnames after the same loop (the list is only ever tested with `in`).
RegistryNames(rows) ==
    {rows[i].name : i \in {j \in 1..Len(rows) : rows[j].model_number # ""}}

EmptyRegistry == [k \in {} |-> 0]

NextModelId(rows) == Len(rows) + 1

\* The server applying POST /models and PATCH /models/<id>.
ServerCreateModel(rows, newmodel) ==
    Append(rows, ModelRow(NextModelId(rows), newmodel.model_number, newmodel.name))
ServerUpdateModel(rows, model_id, name) ==
    [i \in 1..Len(rows) |->
        IF rows[i].id = model_id THEN [rows[i] EXCEPT !.name = name] ELSE rows[i]]

----------------------------------------------------------------------------
(* The pure parts of the per-device processing, lines 366-489 *)

\* Lines 406-413: the asset tag of a new asset.  config['snipe-it']['asset_tag']
\* names a device field; the lookup of line 411 fails when the setting or the
\* field is missing and the tag of lines 406-409 stands.
\* A variant that looks at the configured field only when the device has no
\* tag of its own.
mosyle_asset_tag_OwnFirst(d) ==
    IF d.asset_tag # EmptyStr THEN d.asset_tag
    ELSE IF config.asset_tag \in DOMAIN d THEN d[config.asset_tag]
    ELSE d.serial_number

mosyle_asset_tag(d) ==
    LET own == IF d.asset_tag = EmptyStr THEN d.serial_number ELSE d.asset_tag
    IN  IF config.asset_tag # "" /\ config.asset_tag \in DOMAIN d
        THEN d[config.asset_tag] ELSE own

\* str.find('-'): the 0-based index of the first '-', -1 when there is none.
Find(s, c) ==
    IF \E i \in 1..Len(s) : s[i] = c
    THEN (CHOOSE i \in 1..Len(s) : s[i] = c /\ \A j \in 1..(i-1) : s[j] # c) - 1
    ELSE -1

\* Python's s[:k] and s[k:] for an index k >= -1 (a negative k counts from the end).
SliceTo(s, k) ==
    LET e == IF k < 0 THEN (IF Len(s) + k < 0 THEN 0 ELSE Len(s) + k) ELSE k
    IN  SubSeq(s, 1, IF e > Len(s) THEN Len(s) ELSE e)
SliceFrom(s, k) ==
    LET b == IF k < 0 THEN (IF Len(s) + k < 0 THEN 0 ELSE Len(s) + k) ELSE k
    IN  SubSeq(s, b + 1, Len(s))

\* Lines 418-419: the asset tag of a new mobile device.
MobileTag(tag) ==
    LET index == Find(tag, "-")
    IN  SliceTo(tag, index) \o <<"-", "m">> \o SliceFrom(tag, index)

\* Lines 415-420: the payload of create_snipe_asset (the caller has checked
\* that the registry holds the device's model).
newasset(type, d) ==
    [asset_tag |-> IF type = "computers" THEN mosyle_asset_tag(d)
                   ELSE MobileTag(mosyle_asset_tag(d)),
     model_id |-> modelnumbers[d.device_model],
     name |-> d.device_name,
     status_id |-> config.defaultStatus,
     serial |-> d.serial_number]

\* Lines 451-455: the Mosyle value of a mapping entry, '' when the device has
\* no such field.
mosyle_value(d, mosyle_key) ==
    IF mosyle_key \in DOMAIN d THEN d[mosyle_key] ELSE EmptyStr

\* A variant that looks at the top-level attributes only.
NeedsUpdate_TopLevelOnly(row, d, snipekey, mosyle_key) ==
    snipekey \in DOMAIN row /\ row[snipekey] # mosyle_value(d, mosyle_key)

\* Lines 461-477: whether the mapping entry <<snipekey, mosyle_key>> is staged.
NeedsUpdate(row, d, snipekey, mosyle_key) ==
    LET latestvalue == mosyle_value(d, mosyle_key)
    IN  IF snipekey \in DOMAIN row
        THEN row[snipekey] # latestvalue
        ELSE \E CustomField \in DOMAIN row.custom_fields :
                /\ row.custom_fields[CustomField].field = snipekey
                /\ row.custom_fields[CustomField].value # latestvalue

\* Lines 449-477: the update payload, a dict snipekey -> value.
Payload(row, d) ==
    LET m == config.mapping
        staged == {i \in 1..Len(m) : NeedsUpdate(row, d, m[i][1], m[i][2])}
    IN  [k \in {m[i][1] : i \in staged} |->
            mosyle_value(d, m[CHOOSE i \in staged : m[i][1] = k][2])]

----------------------------------------------------------------------------
(* The inputs of a run *)

\* settings.conf: the field mapping, the device field that holds the asset tag
\* of a new asset (config['snipe-it']['asset_tag']) and the default status.
Configs == [mapping : Mappings, asset_tag : {"tagfield"}, defaultStatus : {"2"}]

\* The device records Mosyle may list for the i-th device, as far as line 368,
\* the model resolution and the asset tag comparison read them; serial_number
\* may be missing.  The fields read by one step only (the configured tag field,
\* the mapped field x, the user field) are drawn by the step that reads them.
\* date_last_beat is read, and not used, at line 445.
Devices(type, i) ==
    LET base == [device_name : {NameMac},
                 device_model : DeviceModels,
                 device_model_name : IF type = "computers" THEN ModelNames ELSE {"A"},
                 asset_tag : {EmptyStr, TagT}]
        serial == {[serial_number |-> SerialOf(i)], << >>}
    IN  {b @@ s : b \in base, s \in serial}

\* The device record d with its field key, which the script is about to read
\* for the first time: one of values, or no such field when optional.  In the
\* second run the record is the one of the first run: a field that it lacks
\* is one the first run found missing.
WithField(d, key, values, optional) ==
    IF key \in DOMAIN d \/ (optional /\ run = 2) THEN {d}
    ELSE {d @@ (key :> v) : v \in values} \cup (IF optional THEN {d} ELSE {})

NoCustomFields == [k \in {} |-> 0]
CustomField(v) == [CF |-> [field |-> "_snipeit_cf", value |-> v]]

\* The asset rows Snipe-IT may hold for a serial number before the run.
AssetRows ==
    LET holders == IF UserSync
                   THEN {<<None, "deployable">>, <<None, "pending">>,
                         <<1, "deployed">>, <<2, "deployed">>}
                   ELSE {<<None, "deployable">>}
    IN  {[id |-> 7, name |-> nm, asset_tag |-> tg, custom_fields |-> cf,
          assigned_to |-> h[1], status_meta |-> h[2]] :
            nm \in (IF MappedSnipe("name") THEN {NameMac, NameOld} ELSE {NameMac}),
            tg \in {TagT, TagS},
            cf \in (IF MappedSnipe("_snipeit_cf")
                    THEN {CustomField(EmptyStr), CustomField(ValV)}
                    ELSE {NoCustomFields}),
            h \in holders}

\* What Snipe-IT may hold for a serial number before the run: no asset, one, two.
InitialSrv ==
    {NoSrv, [n |-> 2, row |-> NoRow]} \cup {[n |-> 1, row |-> r] : r \in AssetRows}

\* The server applying POST /hardware: the new asset, with the status label of
\* the default status (meta) and the custom fields of the model's fieldset (cf).
ServerCreateAsset(payload, meta, cf) ==
    [n |-> 1,
     row |-> [id |-> 8, name |-> payload.name, asset_tag |-> payload.asset_tag,
              custom_fields |-> cf, assigned_to |-> None, status_meta |-> meta]]

\* The server applying PATCH /hardware/<id>.
ServerUpdateAsset(s, payload) ==
    [s EXCEPT !.row =
        [k \in DOMAIN s.row |->
            IF k \in DOMAIN payload THEN payload[k]
            ELSE IF k = "custom_fields"
            THEN [c \in DOMAIN s.row.custom_fields |->
                    IF s.row.custom_fields[c].field \in DOMAIN payload
                    THEN [s.row.custom_fields[c] EXCEPT
                            !.value = payload[s.row.custom_fields[c].field]]
                    ELSE s.row.custom_fields[c]]
            ELSE s.row[k]]]

----------------------------------------------------------------------------
(* Startup, lines 292-357 *)

\* The rows Snipe-IT puts in an answer to the models request when no limit is
\* asked for.
PageLimits == {1, 2}

\* The status of the answer to the first models request, and what the second
\* request gets: all rows, fewer than all, or an answer with an error status.
\* "raise": the request fails in transport, or its body is not JSON.
\* "429": the answer carries the marker and the hook raises SystemExit.
ListingStatuses ==
    IF env = "faithful" THEN {"200"}
    ELSE {"200", "error", "raise"} \cup (IF ratelimited THEN {} ELSE {"429"})
SecondListings ==
    IF env = "faithful" THEN {"full"}
    ELSE {"full", "short", "error", "raise"} \cup (IF ratelimited THEN {} ELSE {"429"})

NoListing == [limit |-> 0, total |-> 0, first |-> 0, requests |-> 0, second |-> "none"]

Prefix(rows, n) == SubSeq(rows, 1, IF n < Len(rows) THEN n ELSE Len(rows))

\* get_snipe_models(), lines 142-167.  rows is what Snipe-IT holds; the first
\* answer carries total = Len(rows) and the first `limit` rows.  The second
\* request asks for limit = total.  Line 155 tests the status of the first
\* answer again, so an error status of the second answer is not seen:
\* newresponse.json()['total'] raises on its body.
get_snipe_models(rows, limit, first, second) ==
    LET got == Prefix(rows, limit) IN
    IF first = "raise"
    THEN [result |-> "exception", rows |-> << >>,
          err |-> "ConnectionError or JSONDecodeError (line 145/147)",
          first |-> 0, requests |-> 1, second |-> "none"]
    ELSE IF first = "429"
    THEN [result |-> "SystemExit", rows |-> << >>, err |-> RateLimitedMsg,
          first |-> 0, requests |-> 1, second |-> "none"]
    ELSE IF first # "200"
    THEN [result |-> "SystemExit", rows |-> << >>, err |-> "Snipe models API endpoint failed.",
          first |-> 0, requests |-> 1, second |-> "none"]
    ELSE IF Len(rows) <= Len(got)
    THEN [result |-> "return", rows |-> got, err |-> "",
          first |-> Len(got), requests |-> 1, second |-> "none"]
    ELSE IF second = "full"
    THEN [result |-> "return", rows |-> rows, err |-> "",
          first |-> Len(got), requests |-> 2, second |-> second]
    ELSE IF second = "short"
    THEN [result |-> "SystemExit", rows |-> << >>,
          err |-> "Unable to get all model objects from Snipe-IT instanace",
          first |-> Len(got), requests |-> 2, second |-> second]
    ELSE IF second = "429"
    THEN [result |-> "SystemExit", rows |-> << >>, err |-> RateLimitedMsg,
          first |-> Len(got), requests |-> 2, second |-> second]
    ELSE IF second = "error"
    THEN [result |-> "exception", rows |-> << >>,
          err |-> "KeyError: total (line 157)",
          first |-> Len(got), requests |-> 2, second |-> second]
    ELSE [result |-> "exception", rows |-> << >>,
          err |-> "ConnectionError or JSONDecodeError (line 154/156)",
          first |-> Len(got), requests |-> 2, second |-> second]

device_vars == <<mosyle_type, md, snipe, new_snipe_asset, first_kind, srv, mdm_tag,
                 calls, sent>>
registry_vars == <<snipemodels, modelnumbers, modelnames>>
\* What no step of the loop changes: the inputs of the run, and the state of
\* the two clients, which are modelled on their own below.
fixed_vars == <<env, run, user_args, config, rl_vars, mdm_vars>>
input_vars == <<fixed_vars, listing>>

InitWith(e) ==
    /\ pc = "start"
    /\ err = ""
    /\ env = e
    /\ run = 1
    /\ user_args \in {UserArgs(m, d) : m \in Modes, d \in BOOLEAN}
    /\ config \in Configs
    /\ snipemodels = << >>
    /\ modelnumbers = EmptyRegistry
    /\ modelnames = {}
    /\ CurrentNumber = 0
    /\ mosyle_type = ""
    /\ md = NoMd
    /\ snipe = NoSnipe
    /\ new_snipe_asset = "unset"
    /\ first_kind = "unset"
    /\ srv = UnknownSrv
    /\ mdm_tag = EmptyStr
    /\ calls = << >>
    /\ sent = NoSent
    /\ hist = << >>
    /\ listing = NoListing

\* The clients at rest, while the loop is looked at.
ClientsOff ==
    /\ rl_pc = "off"
    /\ ratelimited = FALSE
    /\ r_text = ""
    /\ snipe_api_count = 0
    /\ rl_log = << >>
    /\ m_pc = "off"
    /\ mdm_pages = 0
    /\ fail = 0
    /\ page = 0
    /\ all_devices = << >>
    /\ reqlog = << >>
    /\ m_result = "unset"

Init == InitWith("any") /\ ClientsOff

\* Lines 296-308: Snipe-IT answers 200, or the run exits.
CheckHosts ==
    /\ pc = "start"
    /\ \E SNIPE_UP \in (IF env = "faithful" THEN {TRUE} ELSE BOOLEAN) :
        /\ pc' = IF SNIPE_UP THEN "models" ELSE "fatal"
        /\ err' = IF SNIPE_UP THEN "" ELSE "Error: Host could not be contacted."
    /\ UNCHANGED <<input_vars, registry_vars, CurrentNumber, device_vars, hist>>

\* Lines 313-325: get_snipe_models answers a listing (the rows the server
\* holds), from which the registry is built, or exits.
GetModels ==
    /\ pc = "models"
    /\ \E rows \in (IF run = 1 THEN ModelListings ELSE {snipemodels}) :
       \E limit \in (IF run = 1 THEN PageLimits ELSE {listing.limit}),
          first \in ListingStatuses,
          second \in SecondListings :
        LET g == get_snipe_models(rows, limit, first, second) IN
        \* the second answer exists only where the function asks again
        /\ g.requests = 1 => second = "full"
        /\ listing' = [limit |-> limit, total |-> Len(rows), first |-> g.first,
                       requests |-> g.requests, second |-> g.second]
        /\ err' = g.err
        /\ IF g.result = "return"
           THEN /\ snipemodels' = g.rows
                /\ modelnumbers' = RegistryNumbers(g.rows, EmptyRegistry)
                /\ modelnames' = RegistryNames(g.rows)
                /\ pc' = "devices"
           ELSE /\ pc' = IF g.result = "SystemExit" THEN "fatal" ELSE "crashed"
                /\ UNCHANGED registry_vars
    /\ UNCHANGED <<fixed_vars, CurrentNumber, device_vars, hist>>

AfterListing_NoExit == "loop"

\* Lines 352-353: where the script goes after the listings.
AfterListing == IF user_args.dryrun THEN "dryrun_exit" ELSE "loop"

\* Lines 328-357: the two device listings, then the dry-run exit.  The devices
\* are inputs: each is drawn when the loop of lines 359-366 reaches it.
\* mosyle.get_devices returns a list, also when its requests fail, or raises
\* (a transport failure, an expired token: validate_request, lines 55-60),
\* and nothing catches that at lines 329-330.
GetDevices ==
    /\ pc = "devices"
    /\ \E oc \in MdmOutcomes \ {"fail"} :
        IF oc = "raise"
        THEN /\ pc' = "crashed"
             /\ err' = "exception raised by mosyle.get_devices (line 329/330)"
        ELSE /\ pc' = AfterListing
             /\ err' = IF AfterListing = "dryrun_exit" THEN "Dryrun: Complete." ELSE ""
    /\ CurrentNumber' = 0
    /\ UNCHANGED <<input_vars, registry_vars, device_vars, hist>>

----------------------------------------------------------------------------
(* The loop over the devices, lines 359-489 *)

\* What ends the processing of a device and goes on to the next (continue, or
\* the end of the loop body): in the faithful scenario the device is recorded
\* with what the two services now hold for it.
Record(s, tag) ==
    IF env = "faithful" /\ run = 1
    THEN Append(hist, [type |-> mosyle_type, md |-> [md EXCEPT !.asset_tag = tag],
                       srv |-> s])
    ELSE hist

\* The classes the loop of lines 359-366 may still visit: the computers come
\* before the mobile devices.
ClassesLeft ==
    IF mosyle_type = "mobile_devices" THEN {"mobile_devices"}
    ELSE {"computers", "mobile_devices"}

\* The number of devices of a run.
DeviceLimit == IF env = "faithful" THEN MaxReplay ELSE MaxDevices

\* Lines 366-368: the next device; the log line of 368 reads md['serial_number'].
\* The second run visits the devices of the first, as the services now hold them.
NextDevice ==
    /\ pc = "loop"
    /\ IF run = 1 THEN CurrentNumber < DeviceLimit ELSE hist # << >>
    /\ \E type \in (IF run = 1 THEN ClassesLeft ELSE {Head(hist).type}) :
       \E d \in (IF run = 1 THEN Devices(type, CurrentNumber + 1)
                 ELSE {Head(hist).md}) :
        /\ mosyle_type' = type
        /\ md' = d
        /\ mdm_tag' = d.asset_tag
        /\ IF "serial_number" \in DOMAIN d
           THEN pc' = "model" /\ err' = ""
           ELSE pc' = "crashed" /\ err' = "KeyError: serial_number (line 368)"
    /\ CurrentNumber' = CurrentNumber + 1
    /\ srv' = IF run = 1 THEN UnknownSrv ELSE Head(hist).srv
    /\ hist' = IF run = 1 THEN hist ELSE Tail(hist)
    /\ snipe' = NoSnipe
    /\ new_snipe_asset' = "unset"
    /\ first_kind' = "unset"
    /\ calls' = << >>
    /\ sent' = NoSent
    /\ UNCHANGED <<input_vars, registry_vars>>

\* The loop is over (the listing has no further device): the script ends.
LoopEnd ==
    /\ pc = "loop"
    /\ run = 2 => hist = << >>
    /\ pc' = "done"
    /\ UNCHANGED <<err, input_vars, registry_vars, CurrentNumber, device_vars, hist>>

\* Lines 371-384: model resolution, with create_snipe_model (184-194) and
\* update_snipe_model (197-207).  On HTTP 200 both read
\* jsonresponse['payload']['model_number'] (lines 190, 203), which raises when
\* Snipe-IT answers 200 with status 'error' and a null payload; so does a
\* transport failure of the request.
ModelResolution ==
    /\ pc = "model"
    /\ \E oc \in (IF /\ mosyle_type = "computers"
                      /\ \/ md.device_model \notin DOMAIN modelnumbers
                         \/ md.device_model_name \notin modelnames
                   THEN Outcomes ELSE {"ok"}) :
        IF mosyle_type = "computers" /\ md.device_model \notin DOMAIN modelnumbers
        THEN LET newmodel == [name |-> md.device_model_name,
                              model_number |-> md.device_model]
             IN  /\ calls' = Append(calls, "createModel")
                 /\ sent' = [sent EXCEPT !.createModel = newmodel]
                 /\ pc' = IF Ends(oc) THEN EndPc(oc) ELSE "lookup"
                 /\ err' = IF Ends(oc)
                           THEN EndErr(oc, "exception raised by create_snipe_model (line 379)")
                           ELSE err
                 /\ IF oc = "ok"
                    THEN /\ snipemodels' = ServerCreateModel(snipemodels, newmodel)
                         /\ modelnumbers' = (newmodel.model_number :>
                                                NextModelId(snipemodels)) @@ modelnumbers
                    ELSE UNCHANGED <<snipemodels, modelnumbers>>
        ELSE IF mosyle_type = "computers" /\ md.device_model_name \notin modelnames
        THEN LET model_id == modelnumbers[md.device_model]
             IN  /\ calls' = Append(calls, "updateModel")
                 /\ sent' = [sent EXCEPT !.updateModel =
                                [id |-> model_id, name |-> md.device_model_name]]
                 /\ pc' = IF Ends(oc) THEN EndPc(oc) ELSE "lookup"
                 /\ err' = IF Ends(oc)
                           THEN EndErr(oc, "exception raised by update_snipe_model (line 384)")
                           ELSE err
                 /\ IF oc = "ok"
                    THEN snipemodels' = ServerUpdateModel(snipemodels, model_id,
                                                          md.device_model_name)
                    ELSE UNCHANGED snipemodels
                 /\ UNCHANGED modelnumbers
        ELSE /\ pc' = "lookup"
             /\ UNCHANGED <<err, snipemodels, modelnumbers, calls, sent>>
    /\ UNCHANGED <<input_vars, modelnames, CurrentNumber, mosyle_type, md,
                   snipe, new_snipe_asset, first_kind, srv, mdm_tag, hist>>

AfterLookup_MultiCreates(kind) ==
    CASE kind = "NoMatch" -> "create"
      [] kind = "MultiMatch" -> "create"
      [] kind = "ERROR" -> "loop"
      [] kind = "Single" -> "diff"
      [] kind = "exit" -> "fatal"
      [] OTHER -> "crashed"

\* Where the script goes with the result of the first lookup, lines 403-444.
AfterLookup(kind) ==
    CASE kind = "NoMatch" -> "create"
      [] kind = "MultiMatch" -> "loop"
      [] kind = "ERROR" -> "loop"
      [] kind = "Single" -> "diff"
      [] kind = "exit" -> "fatal"
      [] OTHER -> "crashed"

\* Line 400 and the branches of lines 403-440: the lookup by serial number.
Lookup ==
    /\ pc = "lookup"
    /\ \E s \in (IF srv = UnknownSrv THEN InitialSrv ELSE {srv}) :
       \E response \in SearchResponses(s) :
        LET result == search_snipe_asset(response)
        IN  /\ srv' = s
            /\ snipe' = IF Ends(result.kind) THEN snipe ELSE result
            /\ first_kind' = result.kind
            /\ pc' = AfterLookup(result.kind)
            /\ err' = IF Ends(result.kind)
                      THEN EndErr(result.kind, "exception raised by search_snipe_asset (line 400)")
                      ELSE IF AfterLookup(result.kind) = "crashed"
                      THEN "TypeError: 'NoneType' object is not subscriptable (line 443)"
                      ELSE ""
            /\ hist' = IF AfterLookup(result.kind) = "loop"
                       THEN Record(s, mdm_tag) ELSE hist
    /\ calls' = Append(calls, "lookup")
    /\ UNCHANGED <<input_vars, registry_vars, CurrentNumber, mosyle_type, md,
                   new_snipe_asset, mdm_tag, sent>>

\* Lines 403-428: a new asset.  Line 416 (420 for a mobile device) reads
\* modelnumbers[md['device_model']]; create_snipe_asset (210-220) returns
\* ('AssetCreated', response) on HTTP 200, whatever the body says, or the bare
\* response, which line 427 subscripts, or lets the exception of
\* requests.post through.
CreateAsset ==
    /\ pc = "create"
    /\ IF md.device_model \notin DOMAIN modelnumbers
       THEN /\ pc' = "crashed"
            /\ err' = "KeyError: device_model (line 416/420)"
            /\ UNCHANGED <<md, calls, sent, new_snipe_asset, srv>>
       ELSE \E d \in WithField(md, config.asset_tag, {TagS}, TRUE),
               oc \in CreateOutcomes :
            \* what the server gives the asset it creates
            \E meta \in (IF UserSync /\ oc = "ok"
                         THEN {"deployable", "pending"} ELSE {"deployable"}),
               cf \in (IF MappedSnipe("_snipeit_cf") /\ oc = "ok"
                       THEN {NoCustomFields, CustomField(EmptyStr)}
                       ELSE {NoCustomFields}) :
            /\ md' = d
            /\ calls' = Append(calls, "createAsset")
            /\ sent' = [sent EXCEPT !.createAsset = newasset(mosyle_type, d)]
            /\ IF oc \in {"ok", "rejected"}
               THEN /\ new_snipe_asset' = "AssetCreated"
                    /\ srv' = IF oc = "ok"
                              THEN ServerCreateAsset(newasset(mosyle_type, d), meta, cf)
                              ELSE srv
                    /\ pc' = IF UserSync THEN "newcheckout" ELSE "relookup"
                    /\ err' = ""
               ELSE IF oc = "fail"
               THEN /\ new_snipe_asset' = "response"
                    /\ srv' = srv
                    /\ pc' = "crashed"
                    /\ err' = "TypeError: 'Response' object is not subscriptable (line 427)"
               ELSE /\ new_snipe_asset' = new_snipe_asset
                    /\ srv' = srv
                    /\ pc' = EndPc(oc)
                    /\ err' = EndErr(oc, "exception raised by create_snipe_asset (line 425)")
    /\ UNCHANGED <<input_vars, registry_vars, CurrentNumber, mosyle_type,
                   snipe, first_kind, mdm_tag, hist>>

\* What a call r of checkout_snipe_asset searched, found and returned.
Resolved(username, r) == [search |-> username, id |-> r.user_id, result |-> r.result]

\* new_snipe_asset[1].json()['payload']['id'] of line 431, for the asset s that
\* the creation left in Snipe-IT: the payload is null when it created none.
PayloadId(s) == IF s.n = 1 THEN s.row.id ELSE Raised

\* What new_snipe_asset[1].json()['payload']['id'] raises on a body that is
\* not that of a creation: the payload is null, or the body is not JSON.
PayloadErrors ==
    {"TypeError: 'NoneType' object is not subscriptable (line 431)",
     "JSONDecodeError: Expecting value (line 431)"}

\* Lines 429-431: the new asset is checked out with checked_out_user "NewAsset".
\* The log line of 430 reads the user field of the device, which the record
\* may lack; then the arguments of the call are evaluated, the id of the
\* creation response among them.
NewAssetCheckout ==
    /\ pc = "newcheckout"
    /\ \E d \in WithField(md, "user", MosyleUsers, TRUE) :
       \E uo \in (IF "user" \in DOMAIN d /\ PayloadId(srv) # Raised
                  THEN Outcomes ELSE {"ok"}) :
       \E oo \in (IF "user" \in DOMAIN d /\ PayloadId(srv) # Raised
                  THEN CheckoutOutcomes(d.user, NewAsset, uo, "ok") ELSE {"ok"}) :
        LET r == checkout_snipe_asset(d.user, NewAsset, srv, uo, "ok", oo)
        IN  /\ md' = d
            /\ IF "user" \notin DOMAIN d
               THEN /\ pc' = "crashed"
                    /\ err' = "KeyError: user (line 430)"
                    /\ UNCHANGED <<calls, srv, sent>>
               ELSE IF PayloadId(srv) = Raised
               THEN /\ pc' = "crashed"
                    /\ err' \in PayloadErrors
                    /\ UNCHANGED <<calls, srv, sent>>
               ELSE /\ calls' = calls \o r.calls
                    /\ srv' = r.srv
                    /\ sent' = IF r.calls[Len(r.calls)] # "checkOut"
                               THEN [sent EXCEPT !.findUser = Resolved(d.user, r)]
                               ELSE [sent EXCEPT !.findUser = Resolved(d.user, r),
                                                 !.checkOut = [assigned_user |-> r.user_id,
                                                               holder |-> NewAsset]]
                    /\ pc' = IF Ends(r.result) THEN EndPc(r.result) ELSE "relookup"
                    /\ err' = IF Ends(r.result)
                              THEN EndErr(r.result, "exception raised by checkout_snipe_asset (line 431)")
                              ELSE err
    /\ UNCHANGED <<input_vars, registry_vars, CurrentNumber, mosyle_type,
                   snipe, new_snipe_asset, first_kind, mdm_tag, hist>>

\* A variant that goes on with whatever the lookup returned.
AfterReLookup_Unchecked(kind) == "diff"

\* Where the script goes with the result of the lookup after the creation:
\* nothing tests it, and snipe['rows'][0] of line 443 raises TypeError on
\* anything but a record ("exit": the hook of the lookup raised SystemExit).
AfterReLookup(kind) ==
    IF kind = "Single" THEN "diff" ELSE IF kind = "exit" THEN "fatal" ELSE "crashed"

\* Line 432: the lookup after the creation; line 443 subscripts its result.
ReLookup ==
    /\ pc = "relookup"
    /\ \E response \in SearchResponses(srv) :
        LET result == search_snipe_asset(response)
        IN  /\ snipe' = IF Ends(result.kind) THEN snipe ELSE result
            /\ pc' = AfterReLookup(result.kind)
            /\ err' = IF result.kind = "Single" THEN ""
                      ELSE IF Ends(result.kind)
                      THEN EndErr(result.kind, "exception raised by search_snipe_asset (line 432)")
                      ELSE "TypeError: the lookup result is not subscriptable by 'rows' (line 443)"
    /\ calls' = Append(calls, "lookup")
    /\ UNCHANGED <<input_vars, registry_vars, CurrentNumber, mosyle_type, md,
                   new_snipe_asset, first_kind, srv, mdm_tag, sent, hist>>

\* Lines 443-479: the field diff and the update, with update_snipe_asset
\* (223-241).  Line 445 reads md['date_last_beat'] first.  On HTTP 200
\* update_snipe_asset reads jsonresponse['payload'][key] (line 233), which
\* raises when the payload is null; so does a transport failure.
FieldDiff ==
    /\ pc = "diff"
    /\ \E d0 \in WithField(md, "date_last_beat", {"2024-01-01"}, TRUE) :
       IF "date_last_beat" \notin DOMAIN d0
       THEN /\ md' = d0
            /\ pc' = "crashed"
            /\ err' = "KeyError: date_last_beat (line 445)"
            /\ UNCHANGED <<calls, sent, srv>>
       ELSE \E d \in (IF Mapped("x") THEN WithField(d0, "x", {ValV}, TRUE) ELSE {d0}) :
            LET payload == Payload(snipe.row, d)
            IN  /\ md' = d
                /\ IF DOMAIN payload # {}
                   THEN \E oc \in Outcomes :
                        /\ calls' = Append(calls, "updateAsset")
                        /\ sent' = [sent EXCEPT !.updateAsset = payload]
                        /\ srv' = IF oc = "ok" THEN ServerUpdateAsset(srv, payload) ELSE srv
                        /\ pc' = IF Ends(oc) THEN EndPc(oc) ELSE "checkout"
                        /\ err' = IF Ends(oc)
                                  THEN EndErr(oc, "exception raised by update_snipe_asset (line 479)")
                                  ELSE err
                   ELSE /\ pc' = "checkout"
                        /\ UNCHANGED <<err, calls, sent, srv>>
    /\ UNCHANGED <<input_vars, registry_vars, CurrentNumber, mosyle_type,
                   snipe, new_snipe_asset, first_kind, mdm_tag, hist>>

\* A variant that asks for a checkout in every user-sync mode.
WantsCheckout_AnyMode(row) == UserSync

\* Line 481: whether the mode asks for a checkout of the asset.
WantsCheckout(row) ==
    \/ /\ user_args.users \/ user_args.users_inverse
       /\ (row.assigned_to = None) = user_args.users
    \/ user_args.users_force

\* Lines 481-485: the checkout decision.  The first argument of the call of
\* line 483 is the user field of the device, which the record may lack.
CheckoutDecision ==
    /\ pc = "checkout"
    /\ IF WantsCheckout(snipe.row) /\ Deployable(snipe.row)
       THEN \E d \in WithField(md, "user", MosyleUsers, TRUE) :
            \E uo \in (IF "user" \in DOMAIN d THEN Outcomes ELSE {"ok"}) :
            \E io \in (IF "user" \in DOMAIN d
                       THEN CheckinOutcomes(d.user, snipe.row.assigned_to, uo)
                       ELSE {"ok"}) :
            \E oo \in (IF "user" \in DOMAIN d
                       THEN CheckoutOutcomes(d.user, snipe.row.assigned_to, uo, io)
                       ELSE {"ok"}) :
            LET r == checkout_snipe_asset(d.user, snipe.row.assigned_to, srv, uo, io, oo)
            IN  /\ md' = d
                /\ IF "user" \notin DOMAIN d
                   THEN /\ pc' = "crashed"
                        /\ err' = "KeyError: user (line 483)"
                        /\ UNCHANGED <<calls, srv, sent>>
                   ELSE /\ calls' = calls \o r.calls
                        /\ srv' = r.srv
                        /\ sent' = IF r.calls[Len(r.calls)] # "checkOut"
                                   THEN [sent EXCEPT !.findUser = Resolved(d.user, r)]
                                   ELSE [sent EXCEPT !.findUser = Resolved(d.user, r),
                                                     !.checkOut =
                                            [assigned_user |-> r.user_id,
                                             holder |-> snipe.row.assigned_to]]
                        /\ pc' = IF Ends(r.result) THEN EndPc(r.result) ELSE "backsync"
                        /\ err' = IF Ends(r.result)
                                  THEN EndErr(r.result, "exception raised by checkout_snipe_asset (line 483)")
                                  ELSE err
       ELSE /\ pc' = "backsync"
            /\ UNCHANGED <<err, md, calls, sent, srv>>
    /\ UNCHANGED <<input_vars, registry_vars, CurrentNumber, mosyle_type,
                   snipe, new_snipe_asset, first_kind, mdm_tag, hist>>

TagDiffers_Always(d, row) == TRUE

\* Line 487: whether the asset tag of the fetched record goes back to Mosyle.
TagDiffers(d, row) == d.asset_tag # row.asset_tag

\* Lines 486-489: the asset tag of Snipe-IT goes back to Mosyle; oc is what
\* MosyleConnection.update_devices achieves: True, False, or an exception
\* (a transport failure, an expired token), which nothing catches.
BackSync ==
    /\ pc = "backsync"
    /\ IF TagDiffers(md, snipe.row)
       THEN \E oc \in MdmOutcomes :
            /\ calls' = Append(calls, "updateDevice")
            /\ sent' = [sent EXCEPT !.updateDevice =
                            [serialnumber |-> md.serial_number,
                             asset_tag |-> snipe.row.asset_tag]]
            /\ mdm_tag' = IF oc = "ok" THEN snipe.row.asset_tag ELSE mdm_tag
            /\ pc' = IF oc = "raise" THEN "crashed" ELSE "loop"
            /\ err' = IF oc = "raise"
                      THEN "exception raised by mosyle.update_devices (line 489)"
                      ELSE err
       ELSE /\ pc' = "loop"
            /\ UNCHANGED <<err, calls, sent, mdm_tag>>
    /\ hist' = IF pc' = "loop" THEN Record(srv, mdm_tag') ELSE hist
    /\ UNCHANGED <<input_vars, registry_vars, CurrentNumber, mosyle_type, md,
                   snipe, new_snipe_asset, first_kind, srv>>

\* The script is run again after a first run that ended normally.
StartSecondRun ==
    /\ pc = "done"
    /\ run = 1
    /\ env = "faithful"
    /\ run' = 2
    /\ pc' = "start"
    /\ modelnumbers' = EmptyRegistry
    /\ modelnames' = {}
    /\ CurrentNumber' = 0
    /\ mosyle_type' = ""
    /\ md' = NoMd
    /\ snipe' = NoSnipe
    /\ new_snipe_asset' = "unset"
    /\ first_kind' = "unset"
    /\ srv' = UnknownSrv
    /\ mdm_tag' = EmptyStr
    /\ calls' = << >>
    /\ sent' = NoSent
    /\ UNCHANGED <<err, env, user_args, config, snipemodels, hist, listing,
                   rl_vars, mdm_vars>>

Next ==
    \/ CheckHosts
    \/ GetModels
    \/ GetDevices
    \/ NextDevice
    \/ LoopEnd
    \/ ModelResolution
    \/ Lookup
    \/ CreateAsset
    \/ NewAssetCheckout
    \/ ReLookup
    \/ FieldDiff
    \/ CheckoutDecision
    \/ BackSync

\* One run of the script against services that may fail.
Spec == Init /\ [][Next]_vars

\* Two runs in succession against services that apply every call faithfully,
\* with no other change between the runs.
InitTwice == InitWith("faithful") /\ ClientsOff
NextTwice == Next \/ StartSecondRun
SpecTwice == InitTwice /\ [][NextTwice]_vars

----------------------------------------------------------------------------
(* request_handler, src/mosyle2snipe.py lines 91-118 *)

\* The requests to Snipe-IT of one run that are looked at.
MaxRequests == 4

\* The engine at rest, while a client is looked at.
EngineOff ==
    /\ pc = "off"
    /\ err = ""
    /\ env = "any"
    /\ run = 1
    /\ user_args = UserArgs("none", FALSE)
    /\ config = [mapping |-> MapStd, asset_tag |-> "tagfield", defaultStatus |-> "2"]
    /\ snipemodels = << >>
    /\ modelnumbers = EmptyRegistry
    /\ modelnames = {}
    /\ CurrentNumber = 0
    /\ mosyle_type = ""
    /\ md = NoMd
    /\ snipe = NoSnipe
    /\ new_snipe_asset = "unset"
    /\ first_kind = "unset"
    /\ srv = UnknownSrv
    /\ mdm_tag = EmptyStr
    /\ calls = << >>
    /\ sent = NoSent
    /\ hist = << >>
    /\ listing = NoListing

MdmOff ==
    /\ m_pc = "off"
    /\ mdm_pages = 0
    /\ fail = 0
    /\ page = 0
    /\ all_devices = << >>
    /\ reqlog = << >>
    /\ m_result = "unset"

engine_vars == <<pc, err, env, run, user_args, config, snipemodels, modelnumbers,
                 modelnames, CurrentNumber, mosyle_type, md, snipe,
                 new_snipe_asset, first_kind, srv, mdm_tag, calls, sent, hist,
                 listing>>

\* What a response body says: the marker '"messages":429' is in it or not.
Texts == {"429", "200"}

\* The sends of one request that fit into the recursion limit of the
\* interpreter: each resend runs inside the hook of the send before it.
RecursionLimit == 3

\* request_handler(r): every request of the script to Snipe-IT carries this
\* response hook, so r.url always holds snipe_base.  With -r the hook sends
\* r.request again on a response with the marker: the prepared request keeps
\* its hooks, so s.send() runs request_handler on the next answer before it
\* returns, and the hook returns what that inner call returned.  `again` is
\* the sequence of the answers of Snipe-IT to the resends; when it is used up
\* on an answer with the marker, the recursion limit is reached and the
\* interpreter raises RecursionError.
\*   sends     how often the request has gone to Snipe-IT when the hook ends
\*   paused    time.sleep(2) was called
\*   count     snipe_api_count after the hook
\*   exit      the hook raised SystemExit
\*   returned  the text of the response the caller gets, "none" on SystemExit,
\*             "RecursionError" when that exception reaches the caller
RECURSIVE request_handler(_, _, _, _)
request_handler(limited, text, count, again) ==
    IF limited
    THEN IF text = "429"
         THEN IF again = << >>
              THEN [sends |-> 1, paused |-> TRUE, count |-> count,
                    exit |-> FALSE, returned |-> "RecursionError"]
              ELSE LET inner == request_handler(limited, Head(again), count,
                                                Tail(again))
                   IN  [inner EXCEPT !.sends = @ + 1, !.paused = TRUE]
         ELSE [sends |-> 1, paused |-> FALSE, count |-> count + 1,
               exit |-> FALSE, returned |-> text]
    ELSE IF text = "429"
         THEN [sends |-> 1, paused |-> FALSE, count |-> count,
               exit |-> TRUE, returned |-> "none"]
         ELSE [sends |-> 1, paused |-> FALSE, count |-> count,
               exit |-> FALSE, returned |-> text]

\* The answers Snipe-IT may give to the resends of a request whose first
\* answer had the marker: rejections, ended by an answer without the marker or
\* by the recursion limit.
Rejections(n) == [i \in 1..n |-> "429"]
Resends ==
    {Append(Rejections(n), "200") : n \in 0..(RecursionLimit - 2)}
        \cup {Rejections(RecursionLimit - 1)}

InitRL ==
    /\ EngineOff
    /\ MdmOff
    /\ rl_pc = "ready"
    /\ ratelimited \in BOOLEAN
    /\ r_text = ""
    /\ snipe_api_count = 0
    /\ rl_log = << >>

\* One of the client functions calls requests.get/post/patch/put; Snipe-IT
\* answers and the response goes to the hook.
SnipeRequest ==
    /\ rl_pc = "ready"
    /\ Len(rl_log) < MaxRequests
    /\ \E text \in Texts : r_text' = text
    /\ rl_pc' = "hook"
    /\ UNCHANGED <<ratelimited, snipe_api_count, rl_log, engine_vars, mdm_vars>>

\* The hook runs on the response.  The pacing of lines 104-113 sleeps by the
\* wall clock and changes nothing but snipe_api_count and first_snipe_call.
RequestHandler ==
    /\ rl_pc = "hook"
    \* further answers exist only where the hook resends
    /\ \E again \in (IF ratelimited /\ r_text = "429" THEN Resends ELSE {<< >>}) :
         LET h == request_handler(ratelimited, r_text, snipe_api_count, again) IN
         /\ rl_log' = Append(rl_log, [first |-> r_text, resends |-> again,
                                      sends |-> h.sends, paused |-> h.paused,
                                      exit |-> h.exit, returned |-> h.returned])
         /\ snipe_api_count' = h.count
         /\ rl_pc' = IF h.exit THEN "fatal"
                     ELSE IF h.returned = "RecursionError" THEN "crashed"
                     ELSE "ready"
    /\ UNCHANGED <<ratelimited, r_text, engine_vars, mdm_vars>>

NextRL == SnipeRequest \/ RequestHandler
SpecRL == InitRL /\ [][NextRL]_vars

----------------------------------------------------------------------------
(* MosyleConnection, src/mosyle_api.py *)

\* The pages of devices Mosyle holds.
MaxPages == 2

\* The failure counter ends the loops of get_devices and update_devices when
\* it passes this value (`fail <= 3`, `fail < 4`).
MaxFail == 3

\* What may happen to one request handed to validate_request.
RequestOutcomes == {"ok", "http_error", "status_not_ok", "transport_error", "token_expired"}

\* validate_request(request): (response, True), (response, False), or an
\* exception.  With the token expired it calls get_token() without its three
\* arguments, a TypeError; s.send() raises on a transport failure.
validate_request(outcome) ==
    CASE outcome = "token_expired"   -> "raise"
      [] outcome = "transport_error" -> "raise"
      [] outcome = "http_error"      -> "invalid"
      [] outcome = "status_not_ok"   -> "invalid"
      [] OTHER                       -> "valid"

\* The devices of page p, as Mosyle lists them.
DevicesOfPage(p) == <<p>>

\* A variant that leaves a page out.
NextPage_Skips(p) == p + 2

\* Line 95: payload['options']['page'] = payload['options']['page'] + 1.
NextPage(p) == p + 1

InitMdm ==
    /\ EngineOff
    /\ rl_pc = "off"
    /\ ratelimited = FALSE
    /\ r_text = ""
    /\ snipe_api_count = 0
    /\ rl_log = << >>
    /\ m_pc = "idle"
    /\ mdm_pages \in 0..MaxPages
    /\ fail = 0
    /\ page = 0
    /\ all_devices = << >>
    /\ reqlog = << >>
    /\ m_result = "unset"

\* get_devices up to its loop, lines 71-82.
CallGetDevices ==
    /\ m_pc = "idle"
    /\ m_pc' = "get_devices"
    /\ fail' = 1
    /\ page' = 1
    /\ all_devices' = << >>
    /\ UNCHANGED <<mdm_pages, reqlog, m_result, engine_vars, rl_vars>>

\* The test of the loops of get_devices and update_devices, lines 83 and 105:
\* the loop goes on while fail is positive and at most 3.
LoopGoesOn(f) == f > 0 /\ f <= MaxFail

\* One turn of the loop of get_devices, lines 83-95, and the return of line
\* 96 when the loop test fails after it.
GetDevicesRequest ==
    /\ m_pc = "get_devices"
    /\ \E outcome \in RequestOutcomes :
         LET v == validate_request(outcome)
             log == Append(reqlog, [page |-> page, outcome |-> outcome])
             f == IF v = "invalid" THEN fail + 1
                  ELSE IF v = "valid" /\ page > mdm_pages THEN 0
                  ELSE fail
         IN
         /\ reqlog' = log
         /\ fail' = f
         /\ IF v = "raise"
            THEN /\ m_pc' = "raised"
                 /\ UNCHANGED <<page, all_devices, m_result>>
            ELSE /\ page' = IF v = "valid" /\ page <= mdm_pages THEN NextPage(page) ELSE page
                 /\ all_devices' = IF v = "valid" /\ page <= mdm_pages
                                   THEN all_devices \o DevicesOfPage(page)
                                   ELSE all_devices
                 /\ IF LoopGoesOn(f)
                    THEN UNCHANGED <<m_pc, m_result>>
                    ELSE /\ m_pc' = "returned"
                         /\ m_result' = "all_devices"
    /\ UNCHANGED <<mdm_pages, engine_vars, rl_vars>>

\* update_devices up to its loop, lines 99-104.
CallUpdateDevices ==
    /\ m_pc = "idle"
    /\ m_pc' = "update_devices"
    /\ fail' = 1
    /\ UNCHANGED <<mdm_pages, page, all_devices, reqlog, m_result, engine_vars, rl_vars>>

\* One turn of the loop of update_devices, lines 105-112, and the return of
\* line 113 when the loop ends after it.
UpdateDevicesRequest ==
    /\ m_pc = "update_devices"
    /\ \E outcome \in RequestOutcomes :
         LET v == validate_request(outcome)
             log == Append(reqlog, [page |-> 0, outcome |-> outcome])
             f == IF v = "invalid" THEN fail + 1 ELSE fail
         IN
         /\ reqlog' = log
         /\ fail' = f
         /\ IF v = "raise"
            THEN /\ m_pc' = "raised"
                 /\ UNCHANGED m_result
            ELSE IF v = "valid" \/ ~LoopGoesOn(f)
            THEN /\ m_pc' = "returned"
                 /\ m_result' = IF f < MaxFail + 1 THEN "True" ELSE "False"
            ELSE UNCHANGED <<m_pc, m_result>>
    /\ UNCHANGED <<mdm_pages, page, all_devices, engine_vars, rl_vars>>

NextMdm == CallGetDevices \/ GetDevicesRequest \/ CallUpdateDevices \/ UpdateDevicesRequest
SpecMdm == InitMdm /\ [][NextMdm]_vars

\* The two clients at work side by side, as in a run: the requests to
\* Snipe-IT go through request_handler, the calls to Mosyle through
\* MosyleConnection. The code runs on once it has started a call (the loops of
\* lines 83 and 105 have no blocking step but the request itself).
InitClients ==
    /\ EngineOff
    /\ rl_pc = "ready"
    /\ ratelimited \in BOOLEAN
    /\ r_text = ""
    /\ snipe_api_count = 0
    /\ rl_log = << >>
    /\ m_pc = "idle"
    /\ mdm_pages \in 0..MaxPages
    /\ fail = 0
    /\ page = 0
    /\ all_devices = << >>
    /\ reqlog = << >>
    /\ m_result = "unset"
NextClients == NextRL \/ NextMdm
SpecClients ==
    /\ InitClients
    /\ [][NextClients]_vars

----------------------------------------------------------------------------
(* Claims about the reconciliation loop *)

\* The processing of the current device is over: the loop is back at its head
\* (or has ended), or the run has ended in it.
DeviceOver == CurrentNumber > 0 /\ pc \in {"loop", "done", "crashed", "fatal"}

\* The current device went through steps 4-6 with a matched asset.
DeviceEnded == CurrentNumber > 0 /\ pc \in {"loop", "done"} /\ snipe.kind = "Single"

\* C1: the second of two runs in succession, against services that applied
\* every write of the first, issues no write call.
C1_SecondRunIssuesNoWrite == run = 2 => Writes(calls) = {}

\* C2: a device whose serial number Snipe-IT does not hold gets exactly one
\* createAsset call, followed once the asset is created by exactly one further
\* lookup, and with a user-sync mode exactly one checkOut call, made for the
\* new asset before that lookup, and no check-in.
C2_CreateOnceThenRelookup ==
    (DeviceOver /\ first_kind = "NoMatch") =>
        /\ Count(calls, "createAsset") = 1
        /\ new_snipe_asset = "AssetCreated" =>
            /\ Count(calls, "lookup") = 2
            /\ UserSync => /\ Count(calls, "checkOut") = 1
                           /\ Count(calls, "checkIn") = 0
                           /\ sent.checkOut.holder = NewAsset

\* C3 as stated: a device whose lookup finds two or more assets gets no write
\* call at all.
C3_Original == (first_kind = "MultiMatch" /\ srv.n >= 2) => Writes(calls) = {}

\* C3: a device whose lookup finds several assets gets no createAsset,
\* updateAsset, checkIn, checkOut or updateDevice call, only the lookup and,
\* before it, the createModel or updateModel call of the model resolution; the
\* loop then goes on to the next device.
C3_MultiMatchIsSkipped ==
    first_kind = "MultiMatch" =>
        /\ pc \in {"loop", "done"}
        /\ calls \in {<<"lookup">>, <<"createModel", "lookup">>,
                      <<"updateModel", "lookup">>}

C3_Witness ==
    /\ first_kind = "MultiMatch"
    /\ srv.n = 2
    /\ calls = <<"createModel", "lookup">>
    /\ pc = "loop"

\* The recoverable conditions of a device: several assets found, a failed
\* lookup, a failed creation, no serial number, an unknown user, a status that
\* is not deployable.
RecoverableCondition ==
    \/ first_kind \in {"MultiMatch", "ERROR"}
    \/ new_snipe_asset = "response"
    \/ md # NoMd /\ "serial_number" \notin DOMAIN md
    \/ "user" \in DOMAIN md /\ md.user \notin DOMAIN SnipeUsers
    \/ snipe.kind = "Single" /\ UserSync /\ ~Deployable(snipe.row)

\* C4: a device with a recoverable condition never ends the run.
C4_RecoverableNeverEndsRun == RecoverableCondition => pc # "crashed"

\* C5: a dry run ends after the listings: it processes no device and issues
\* no call that writes.
C5_DryRunIssuesNoWrite ==
    user_args.dryrun =>
        /\ pc \in {"start", "models", "devices", "dryrun_exit", "fatal", "crashed"}
        /\ CurrentNumber = 0
        /\ calls = << >>
        /\ srv = UnknownSrv

C5_Witness == user_args.dryrun /\ pc = "dryrun_exit" /\ snipemodels # << >>

\* C6: update_devices is called only by the last step of a device, exactly
\* once and with the asset tag of the fetched asset record when the tag of the
\* device differs from it, and not at all when the two are equal, whatever the
\* update and the checkout did.
C6_BackSync ==
    /\ ~DeviceOver => Count(calls, "updateDevice") = 0
    /\ Count(calls, "updateDevice") > 0 =>
          /\ snipe.kind = "Single"
          /\ md.asset_tag # snipe.row.asset_tag
          /\ calls[Len(calls)] = "updateDevice"
    /\ DeviceEnded =>
        IF md.asset_tag # snipe.row.asset_tag
        THEN /\ Count(calls, "updateDevice") = 1
             /\ calls[Len(calls)] = "updateDevice"
             /\ sent.updateDevice = [serialnumber |-> md.serial_number,
                                     asset_tag |-> snipe.row.asset_tag]
        ELSE Count(calls, "updateDevice") = 0

C6_Witness ==
    /\ DeviceEnded
    /\ Count(calls, "updateDevice") = 1
    /\ Count(calls, "updateAsset") = 1
    /\ Count(calls, "checkIn") = 1
    /\ srv.row.assigned_to = 2

\* C7: the lookup has one of four outcomes and never another: NoMatch when the
\* server holds no asset with the serial number, SingleMatch when it holds
\* one, MultiMatch when it holds several, Error.
C7_FourOutcomes ==
    /\ snipe.kind \in {"unset", "NoMatch", "Single", "MultiMatch", "ERROR"}
    /\ snipe.kind = "NoMatch" => srv.n = 0
    /\ snipe.kind = "Single" => srv.n = 1
    /\ snipe.kind = "MultiMatch" => srv.n >= 2

\* C13: get_snipe_models hands the registry a listing with as many rows as the
\* total Snipe-IT reports, asking a second time (once) exactly when the first
\* answer is short; when the second request fails or its answer is short, the
\* run aborts as fatal (SystemExit with its message) before any device is
\* processed and the registry stays empty.
C13_ListingCompleteOrFatal ==
    /\ listing.requests <= 2
    /\ pc = "devices" =>
          /\ Len(snipemodels) = listing.total
          /\ listing.requests = (IF listing.first < listing.total THEN 2 ELSE 1)
          /\ listing.second \in {"none", "full"}
    /\ listing.second \in {"short", "error", "raise", "429"} =>
          /\ pc = "fatal"
          /\ snipemodels = << >>
          /\ modelnumbers = EmptyRegistry
          /\ CurrentNumber = 0

\* create_snipe_asset has been called for the current device.
Created == CurrentNumber > 0 /\ Count(calls, "createAsset") = 1

\* C14: the asset_tag of the createAsset payload of a computer is the value of
\* the configured field when the device has it, else the device's asset_tag
\* when that is not empty, else its serial number.  A computer with an empty
\* asset_tag, no configured field, a model the registry lacks and no asset
\* gets, with Snipe-IT accepting the model, createModel for its device_model
\* and then createAsset with its serial number as asset_tag and as serial.
C14_AssetTagOnCreation ==
    /\ (Created /\ mosyle_type = "computers") =>
          /\ sent.createAsset.serial = md.serial_number
          /\ sent.createAsset.asset_tag =
                IF config.asset_tag \in DOMAIN md THEN md[config.asset_tag]
                ELSE IF md.asset_tag # EmptyStr THEN md.asset_tag
                ELSE md.serial_number
    /\ (/\ DeviceOver
        /\ mosyle_type = "computers"
        /\ first_kind = "NoMatch"
        /\ md.asset_tag = EmptyStr
        /\ Count(calls, "createModel") = 1
        /\ md.device_model \in DOMAIN modelnumbers) =>
          /\ SubSeq(calls, 1, 3) = <<"createModel", "lookup", "createAsset">>
          /\ Created
          /\ sent.createModel.model_number = md.device_model
          /\ config.asset_tag \notin DOMAIN md =>
                sent.createAsset.asset_tag = md.serial_number

C14_Witness ==
    /\ DeviceOver
    /\ mosyle_type = "computers"
    /\ first_kind = "NoMatch"
    /\ md.asset_tag = EmptyStr
    /\ config.asset_tag \notin DOMAIN md
    /\ Count(calls, "createModel") = 1
    /\ Created
    /\ sent.createAsset.asset_tag = SerialOf(1)
    /\ snipe.kind = "Single"

\* C15: the asset tag sent to createAsset for a mobile device is the computed
\* tag with "-m" put in immediately before its first "-" (a tag without "-"
\* has no such place and is sent as it is); for a computer it is the computed
\* tag.
C15_MobileTagMarker ==
    Created =>
        LET tag == mosyle_asset_tag(md)
            dashes == {i \in 1..Len(tag) : tag[i] = "-"}
            first == CHOOSE i \in dashes : \A j \in dashes : i <= j
        IN  sent.createAsset.asset_tag =
                IF mosyle_type = "mobile_devices" /\ dashes # {}
                THEN SubSeq(tag, 1, first - 1) \o <<"-", "m">> \o SubSeq(tag, first, Len(tag))
                ELSE tag

\* The field diff of the current device is done, and so is its checkout
\* decision.
PastDiff ==
    CurrentNumber > 0 /\ snipe.kind = "Single" /\ pc \in {"checkout", "backsync", "loop", "done"}
PastCheckout ==
    CurrentNumber > 0 /\ snipe.kind = "Single" /\ pc \in {"backsync", "loop", "done"}

\* C16: the update payload holds exactly the mapped Snipe-IT fields that the
\* asset has, as an attribute or else as a custom field of that name, and whose
\* value differs from the Mosyle value ('' when the device lacks the field); a
\* mapped name the asset does not have stages nothing; update_snipe_asset is
\* called once when the payload is not empty and not at all when it is.
C16_FieldDiff ==
    PastDiff =>
        LET m == config.mapping
            row == snipe.row
            val(i) == IF m[i][2] \in DOMAIN md THEN md[m[i][2]] ELSE EmptyStr
            differs(i) ==
                IF m[i][1] \in DOMAIN row THEN row[m[i][1]] # val(i)
                ELSE \E c \in DOMAIN row.custom_fields :
                        /\ row.custom_fields[c].field = m[i][1]
                        /\ row.custom_fields[c].value # val(i)
            expected == {i \in 1..Len(m) : differs(i)}
        IN  IF expected = {}
            THEN Count(calls, "updateAsset") = 0
            ELSE /\ Count(calls, "updateAsset") = 1
                 /\ DOMAIN sent.updateAsset = {m[i][1] : i \in expected}
                 /\ \A i \in expected : sent.updateAsset[m[i][1]] = val(i)
                 /\ "ghost" \notin DOMAIN sent.updateAsset

C16_Witness ==
    /\ PastDiff
    /\ Count(calls, "updateAsset") = 1
    /\ DOMAIN sent.updateAsset = {"name", "_snipeit_cf"}
    /\ sent.updateAsset["_snipeit_cf"] = ValV
    /\ MappedSnipe("ghost")

\* The calls of checkout_snipe_asset made by the checkout decision of line
\* 483 for the current device.  Each call begins with the user search, and
\* the decision works on the record of the last lookup: the second one after
\* a creation, whose own checkout (line 431) comes before that lookup.
DecisionCheckouts ==
    LET lookups(i) == Count(SubSeq(calls, 1, i), "lookup")
        last == IF Count(calls, "createAsset") > 0 THEN 2 ELSE 1
    IN  Cardinality({i \in 1..Len(calls) :
                        calls[i] = "findUser" /\ lookups(i) = last})

\* C17: for a matched asset the checkout decision calls checkout_snipe_asset
\* at most once, and only, with -u, for an asset that is not assigned; with
\* -ui, for an asset that is assigned; with -uf, for any asset; with none of
\* them, never; this also when the run ends in the call.  It does call it in
\* these cases when the status of the asset allows it.
C17_CheckoutModes ==
    (CurrentNumber > 0 /\ snipe.kind = "Single") =>
        LET assigned == snipe.row.assigned_to # None
            wanted == \/ user_args.users /\ ~assigned
                      \/ user_args.users_inverse /\ assigned
                      \/ user_args.users_force
        IN  /\ DecisionCheckouts \in {0, 1}
            /\ DecisionCheckouts = 1 => wanted
            /\ (PastCheckout /\ wanted /\ Deployable(snipe.row)) => DecisionCheckouts = 1
            /\ ~UserSync => Count(calls, "findUser") + Count(calls, "checkOut")
                                + Count(calls, "checkIn") = 0

C17_Witness ==
    /\ PastCheckout
    /\ first_kind = "Single"
    /\ user_args.users_inverse
    /\ snipe.row.assigned_to = 2
    /\ calls = <<"lookup", "findUser", "checkIn", "checkOut">>

\* C18: checkOut is called only for an asset whose status is deployable or
\* deployed, for an asset found by the lookup and for one just created.
C18_CheckoutOnlyWhenDeployable ==
    (CurrentNumber > 0 /\ Count(calls, "checkOut") > 0) => Deployable(srv.row)

\* The calls of the one call of checkout_snipe_asset made for a device whose
\* asset the lookup found: those from findUser on, but for the updateDevice of
\* the back-sync.
CheckoutCalls ==
    LET first == CHOOSE i \in 1..Len(calls) : calls[i] = "findUser"
    IN  SubSeq(calls, first, Len(calls) - Count(calls, "updateDevice"))

\* C19: checkout_snipe_asset first searches the user; when there is none it
\* calls neither checkIn nor checkOut; when the asset is held by that user it
\* calls neither and returns CheckedOut; when it is held by another user it
\* calls checkIn once and then checkOut once; when it is held by nobody it
\* calls checkOut once and no checkIn.  A checkIn is always followed by a
\* checkOut.
C19_CheckoutProtocol ==
    /\ \A i \in 1..Len(calls) :
          calls[i] = "checkIn" => (i < Len(calls) /\ calls[i + 1] = "checkOut")
    /\ \A i \in 1..Len(calls) :
          calls[i] = "checkOut" => (i > 1 /\ calls[i - 1] \in {"findUser", "checkIn"})
    /\ (PastCheckout /\ first_kind = "Single" /\ DecisionCheckouts = 1) =>
          LET holder == snipe.row.assigned_to IN
          /\ sent.findUser.search = md.user
          /\ CheckoutCalls =
                IF sent.findUser.id = NotFound THEN <<"findUser">>
                ELSE IF holder = sent.findUser.id THEN <<"findUser">>
                ELSE IF holder # None THEN <<"findUser", "checkIn", "checkOut">>
                ELSE <<"findUser", "checkOut">>
          /\ (sent.findUser.id # NotFound /\ holder = sent.findUser.id) =>
                sent.findUser.result = "CheckedOut"
          /\ Count(calls, "checkOut") = 1 =>
                sent.checkOut.assigned_user = sent.findUser.id

\* The display name Snipe-IT holds for the model that the registry gives for
\* a model number.
KnownName(num) ==
    LET i == CHOOSE i \in 1..Len(snipemodels) : snipemodels[i].id = modelnumbers[num]
    IN  snipemodels[i].name

\* C20: the model resolution of a computer calls createModel exactly when the
\* registry lacks the device's model number, else updateModel exactly when the
\* name known for that model is not the device's model name, else nothing; for
\* a mobile device it calls nothing.
C20_ModelResolution ==
    [][(pc = "model" /\ pc' = "lookup") =>
          calls' = calls \o
             (IF mosyle_type # "computers" THEN << >>
              ELSE IF md.device_model \notin DOMAIN modelnumbers THEN <<"createModel">>
              ELSE IF KnownName(md.device_model) # md.device_model_name
                   THEN <<"updateModel">>
              ELSE << >>)]_vars

\* A model with this number and name was created in this run, after the
\* listing, and the registry holds its id for the number.
CreatedInRun(num, name) ==
    \E i \in (listing.total + 1)..Len(snipemodels) :
        /\ snipemodels[i].model_number = num
        /\ snipemodels[i].name = name
        /\ num \in DOMAIN modelnumbers
        /\ modelnumbers[num] = snipemodels[i].id

\* C21: a computer whose model was created earlier in the run, with the same
\* model name, causes no model call: no createModel and no updateModel.
C21_CreatedModelIsKnown ==
    [][(/\ pc = "model"
        /\ pc' = "lookup"
        /\ mosyle_type = "computers"
        /\ CreatedInRun(md.device_model, md.device_model_name)) =>
            calls' = calls]_vars

\* C22: after the registry is built, a model number that several listed models
\* carry maps to the id of the first of them, and a model without a model
\* number is not in the registry.
C22_FirstRecordWins ==
    pc = "devices" =>
        /\ "" \notin DOMAIN modelnumbers
        /\ \A i \in 1..Len(snipemodels) :
              (/\ snipemodels[i].model_number # ""
               /\ \A j \in 1..(i - 1) :
                     snipemodels[j].model_number # snipemodels[i].model_number) =>
                  /\ snipemodels[i].model_number \in DOMAIN modelnumbers
                  /\ modelnumbers[snipemodels[i].model_number] = snipemodels[i].id

\* C23: every device that enters the creation with a serial number gets a
\* createAsset call with its serial number, its name, the configured default
\* status and the id the registry holds for its model; no payload is built
\* for a model the registry does not hold.
C23_CreationPayload ==
    (CurrentNumber > 0 /\ first_kind = "NoMatch" /\ pc # "create") =>
        /\ Created
        /\ md.device_model \in DOMAIN modelnumbers
        /\ sent.createAsset.model_id = modelnumbers[md.device_model]
        /\ sent.createAsset.serial = md.serial_number
        /\ sent.createAsset.name = md.device_name
        /\ sent.createAsset.status_id = config.defaultStatus

\* C24: after a creation, the field diff, the checkout decision and the
\* back-sync work on the record of the second lookup, as Snipe-IT holds it;
\* they run only when that lookup returned one record: on any other result
\* none of them runs (the run ends in the lookup or at line 443).
C24_StepsOnRelookedRecord ==
    (CurrentNumber > 0 /\ new_snipe_asset = "AssetCreated") =>
        /\ pc \in {"diff", "checkout", "backsync", "loop", "done"} =>
              /\ snipe.kind = "Single"
              /\ Count(calls, "lookup") = 2
              /\ snipe.row.id = srv.row.id
        /\ pc = "diff" => snipe.row = srv.row
        /\ (Count(calls, "lookup") = 2 /\ snipe.kind # "Single") =>
              /\ pc \in {"crashed", "fatal"}
              /\ Count(calls, "updateAsset") = 0
              /\ Count(calls, "updateDevice") = 0
              /\ DecisionCheckouts = 0

C24_Witness ==
    /\ new_snipe_asset = "AssetCreated"
    /\ pc = "loop"
    /\ snipe.kind = "Single"
    /\ snipe.row.id = 8
    /\ Count(calls, "lookup") = 2
    /\ Count(calls, "updateAsset") = 1

\* C27: once a matched device has been processed with every call succeeding,
\* the asset tag that Mosyle holds for it equals the asset tag that Snipe-IT
\* holds for the asset, which is the tag the asset had when it was fetched,
\* also when asset_tag is an entry of the field mapping.
C27_TagsConverge ==
    (DeviceEnded /\ first_kind = "Single") =>
        /\ mdm_tag = srv.row.asset_tag
        /\ srv.row.asset_tag = snipe.row.asset_tag

----------------------------------------------------------------------------
(* Claims about request_handler *)

\* C8 as stated: a response with the 429 marker is followed by a pause and
\* exactly one resend of the request, with -r and without it.
C8_Original ==
    \A i \in 1..Len(rl_log) :
        rl_log[i].first = "429" => rl_log[i].sends = 2 /\ rl_log[i].paused

\* C9: when the resent request is answered with the 429 marker again, the
\* request is sent no third time and the run ends as fatal.
C9_PersistentRejectionIsFatal ==
    \A i \in 1..Len(rl_log) :
        (rl_log[i].first = "429" /\ Len(rl_log[i].resends) >= 1
            /\ rl_log[i].resends[1] = "429")
        => (rl_log[i].sends = 2 /\ rl_log[i].exit)

----------------------------------------------------------------------------
(* Claims about MosyleConnection *)

\* The requests of the call that failed validation, and the length of the run
\* of them that ends the log.
Failed(i) == validate_request(reqlog[i].outcome) = "invalid"
Streak == Cardinality({i \in 1..Len(reqlog) : \A j \in i..Len(reqlog) : Failed(j)})

\* get_devices has given up: it returned without having seen the end of the
\* listing.
Abandoned == m_pc = "returned" /\ m_result = "all_devices" /\ fail > MaxFail

\* C10: get_devices gives up only after 3 failures in a row, failures with a
\* fetched page between them do not add up, and it then returns the devices of
\* the pages fetched so far.
C10_AbandonedAfterThreeInARow ==
    Abandoned =>
        /\ Streak = MaxFail
        /\ all_devices = [p \in 1..(page - 1) |-> p]

\* A request of get_devices found a page of devices (the requests of
\* update_devices carry no page and fetch none).
Fetched(i) ==
    /\ validate_request(reqlog[i].outcome) = "valid"
    /\ reqlog[i].page \in 1..mdm_pages

\* C11: get_devices asks for page 1 first, then for the next page after every
\* fetched page and for the same page again after a failed request; when it
\* ends on the not-found answer it returns the devices of all pages before
\* that one, in order, each once.
C11_PagesInOrder ==
    page > 0 =>
        /\ Len(reqlog) > 0 => reqlog[1].page = 1
        /\ \A i \in 1..(Len(reqlog) - 1) :
               reqlog[i + 1].page = IF Fetched(i) THEN reqlog[i].page + 1 ELSE reqlog[i].page
        /\ (m_pc = "returned" /\ fail = 0) =>
               /\ reqlog[Len(reqlog)].page = mdm_pages + 1
               /\ all_devices = [p \in 1..mdm_pages |-> p]

C11_Witness ==
    /\ m_pc = "returned"
    /\ fail = 0
    /\ mdm_pages = 2
    /\ all_devices = <<1, 2>>
    /\ Len(reqlog) = 5
    /\ ~Fetched(2)

\* C12: update_devices never raises: it makes at most 3 requests and returns
\* True when one of them succeeded, False after 3 failures.
C12_UpdateNeverRaises ==
    (page = 0 /\ m_pc \in {"update_devices", "returned", "raised"}) =>
        /\ m_pc # "raised"
        /\ Len(reqlog) <= MaxFail
        /\ m_pc = "returned" =>
               m_result = IF reqlog[Len(reqlog)].outcome = "ok" THEN "True" ELSE "False"


\* C25: a request made when the bearer token has expired does not make
\* get_devices or update_devices raise.
C25_ExpiredTokenNeverRaises ==
    (Len(reqlog) > 0 /\ reqlog[Len(reqlog)].outcome = "token_expired") => m_pc # "raised"

\* The requests of the call so far that validate_request answered with
\* (response, False).
InvalidRequests == Cardinality({i \in 1..Len(reqlog) : validate_request(reqlog[i].outcome) = "invalid"})

\* C26 as stated: whatever the failures of the requests, get_devices makes at
\* most (non-empty pages + 1 + 3) requests and update_devices at most 3, at
\* most 3 of the requests of a call fail, and a rate-limited request to
\* Snipe-IT is sent again at most once.
C26_RequestsBounded ==
    /\ Len(reqlog) <= mdm_pages + 1 + MaxFail
    /\ InvalidRequests <= MaxFail
    /\ (m_pc = "update_devices" \/ m_result \in {"True", "False"}) => Len(reqlog) <= MaxFail
    /\ \A i \in 1..Len(reqlog) : reqlog[i].page = 0 => Len(reqlog) <= MaxFail
    /\ \A i \in 1..Len(rl_log) : rl_log[i].sends <= 2

============================================================================
